---- MODULE Spec2Model ----
(***************************************************************************)
(* Task lifecycle, access control and notification triggers of the        *)
(* task_management API (tasks/models.py, tasks/serializers.py,             *)
(* tasks/views.py, tasks/notifications.py).                                *)
(*                                                                         *)
(* Every HTTP request is handled by its own worker; a request is a short   *)
(* sequence of steps, one per database access (SELECT, INSERT, UPDATE),    *)
(* so that requests of different workers interleave at the places where    *)
(* the code touches the shared table.  A send to the broker is taken in    *)
(* the step of the write it follows.  Queued celery jobs are run by a      *)
(* separate worker, in any order.                                          *)
(***************************************************************************)
EXTENDS Integers, Sequences, FiniteSets, Bags, TLC

\* ---------------------------------------------------------------- bounds
MaxTasks == 1       \* rows the table may hold
MaxOps   == 3       \* requests that write, in one behaviour
MaxTime  == 1       \* values of the clock: 0..MaxTime
NumReqs  == 2       \* request workers that may be active at once
MaxScan  == 2       \* rows of the table the reminder job scans
MaxDue   == 3       \* due dates: 0..MaxDue
MaxDeletes == 2     \* direct calls of Task.delete on one row

\* ---------------------------------------------------------------- users
\* django.contrib.auth User rows: two ordinary users and one staff user.
Users == {"A", "B", "Adm"}
is_staff == [u \in Users |-> u = "Adm"]
email == [u \in Users |-> IF u = "A" THEN "a@x" ELSE IF u = "B" THEN "b@x" ELSE "adm@x"]

None     == "none"      \* a null user reference
NullTime == -1          \* a null timestamp

\* ---------------------------------------------------------------- Task
STATUS_CHOICES == {"pending", "in_progress", "completed"}

\* The row a Task() has before any field is assigned: the field defaults.
TaskDefaults ==
    [id |-> 0, title |-> "", description |-> "", status |-> "pending",
     owner |-> None, assignee |-> None, due_date |-> NullTime,
     created_at |-> NullTime, updated_at |-> NullTime,
     is_deleted |-> FALSE, deleted_at |-> NullTime]

\* Mutation: owner is not read-only.
WritableFields_mut == {"title", "description", "status", "assignee", "due_date", "owner"}

\* The fields TaskSerializer accepts as input: Meta.fields minus the
\* read-only ones (id, owner, created_at, updated_at).
WritableFields == {"title", "description", "status", "assignee", "due_date"}

VARIABLES
    tasks,      \* the tm_tasks table: a sequence of rows, row i has id i
    req,        \* per request worker: its position and its locals
    out,        \* what the last step handed to the outside: an HTTP
                \* response, a send_mail call or the exception of a job
    queue,      \* bag of celery jobs enqueued by .delay() and not yet run
    now,        \* timezone.now()
    gone,       \* history: ids whose DELETE was answered 204
    nops,       \* requests so far that got as far as writing
    rem,        \* the run of send_due_date_reminder: position and locals
    dels        \* history: per id, the calls of Task.delete made directly

vars == <<tasks, req, out, queue, now, gone, nops, rem, dels>>

Reqs == 1..NumReqs
Ids  == 1..MaxTasks

\* ------------------------------------------------------- request bodies
\* A request body is the set of keys it supplies (given) and a value for
\* each; a key that is not supplied holds the value of NoData.
BodyKeys == WritableFields \cup {"owner", "is_deleted"}

NoData ==
    [title |-> "", description |-> "", status |-> "pending",
     assignee |-> None, due_date |-> NullTime, owner |-> None,
     is_deleted |-> FALSE]

\* MkBody(g, v): the body supplying the keys g with the values v[k]
MkBody(g, v) ==
    [given |-> g,
     val |-> [k \in BodyKeys |-> IF k \in g THEN v[k] ELSE NoData[k]]]

With(k, x) == [NoData EXCEPT ![k] = x]

\* The request bodies tried: complete and incomplete ones, valid and
\* invalid values, read-only and unknown keys.
FullBody(a) == [NoData EXCEPT !.title = "t1", !.description = "d1", !.assignee = a]

Bodies ==
    {MkBody({"title", "description"}, FullBody(None)),
     MkBody({"title", "description", "assignee"}, FullBody("B")),
     MkBody({"title", "description", "owner"}, [FullBody(None) EXCEPT !.owner = "B"]),
     MkBody({"title"}, With("title", "")),
     MkBody({"status"}, With("status", "completed")),
     MkBody({"status"}, With("status", "bogus")),
     MkBody({"assignee"}, With("assignee", "A")),
     MkBody({"assignee"}, With("assignee", "B")),
     MkBody({"assignee"}, With("assignee", None)),
     MkBody({"assignee"}, With("assignee", "ghost")),
     MkBody({"owner", "is_deleted"}, With("owner", "B"))}

\* ------------------------------------------------------- TaskSerializer
\* serializer.is_valid(): title and description are required unless the
\* update is partial and may not be blank, status is one of the choices,
\* assignee is null or the key of an existing user.
is_valid(body, partial) ==
    /\ partial \/ {"title", "description"} \subseteq body.given
    /\ "title" \in body.given => body.val.title # ""
    /\ "description" \in body.given => body.val.description # ""
    /\ "status" \in body.given => body.val.status \in STATUS_CHOICES
    /\ "assignee" \in body.given => body.val.assignee \in Users \cup {None}

\* serializer.validated_data: the supplied writable fields; read-only and
\* unknown keys of the body are dropped.
validated_data(body) ==
    [given |-> body.given \cap WritableFields,
     val |-> [f \in WritableFields |->
                IF f \in body.given THEN body.val[f] ELSE NoData[f]]]

\* ModelSerializer.update: setattr(instance, attr, value) for each
\* validated field; the other attributes of the instance stay as read.
Merge(instance, vd) ==
    [f \in DOMAIN instance |->
        IF f \in vd.given THEN vd.val[f] ELSE instance[f]]

\* Model.save() of an instance: auto_now stamps updated_at, and the UPDATE
\* writes every column of the instance to the row with its id.
SaveRow(instance, t) == [instance EXCEPT !.updated_at = t]

\* Mutation: the queryset is not filtered.
not_deleted_mut(rows) == rows

\* TaskQuerySet.not_deleted
not_deleted(rows) == {x \in rows : x.is_deleted = FALSE}

Rows == {tasks[i] : i \in 1..Len(tasks)}

\* get_object() of both views: the row with this id in get_queryset().
Found(id) == {x \in not_deleted(Rows) : x.id = id}

\* ------------------------------------------------------------- requests
NoBody == MkBody({}, NoData)

\* A worker that handles no request.
NoReq ==
    [pc |-> "idle", op |-> "none", user |-> None, id |-> 0,
     data |-> validated_data(NoBody), instance |-> TaskDefaults,
     old_assignee |-> None]

\* Nothing handed out.
Quiet == [kind |-> "none"]

\* A response: the request it answers (operation, caller, id in the URL),
\* its outcome and the ids of the tasks in the response body.
Response(op, u, id, result, rows) ==
    [kind |-> "response", op |-> op, user |-> u, id |-> id,
     result |-> result, ret |-> {x.id : x \in rows}]

\* Worker r sends its response and is free again.
Reply(r, response) ==
    /\ req' = [req EXCEPT ![r] = NoReq]
    /\ out' = response

\* Worker r takes the next request; workers are interchangeable, so the
\* free worker with the lowest number takes it.
Free(r) ==
    /\ out = Quiet
    /\ req[r].pc = "idle"
    /\ \A q \in Reqs : q < r => req[q].pc # "idle"

\* A job put on the broker by send_task_notification.delay(task.id, action).
\* by and enq_assignee record the operation that enqueued it and the
\* assignee of the saved task at that moment; the job does not carry them.
Job(task, action, by) ==
    [task_id |-> task.id, action |-> action, by |-> by,
     enq_assignee |-> task.assignee]

\* send_due_date_reminder has not started: at is the time it read, table
\* the rows as its query saw them (history), todo the rows the loop has
\* still to visit, sent the send_mail calls made.
NoRun == [pc |-> "idle", at |-> NullTime, table |-> <<>>, todo |-> <<>>, sent |-> <<>>]

Init ==
    /\ tasks = <<>>
    /\ req = [r \in Reqs |-> NoReq]
    /\ out = Quiet
    /\ queue = EmptyBag
    /\ now = 0
    /\ gone = {}
    /\ nops = 0
    /\ rem = NoRun
    /\ dels = [i \in 1..MaxScan |-> 0]

\* The response, email or exception of the last step has left the system.
Flush ==
    /\ out # Quiet
    /\ out' = Quiet
    /\ UNCHANGED <<tasks, req, queue, now, gone, nops, rem, dels>>

\* timezone.now(): the clock read by a step that stamps a row.  Time
\* passes unobserved between such steps, so the step reads either the
\* value read last or a later one.
Clock == {t \in now..(now + 1) : t <= MaxTime}

\* ------------------------------------------------- TaskListCreateView
\* GET /tasks/: the rows of get_queryset() that match the exact-match
\* filters of the query string (filterset_fields).
Filters == {f \in [key : {"none", "owner", "status", "assignee"},
                   value : Users \cup {None} \cup {"pending", "completed"}] :
              \/ f.key = "none" /\ f.value = None
              \/ f.key \in {"owner", "assignee"} /\ f.value \in Users
              \/ f.key = "status" /\ f.value \in {"pending", "completed"}}

filter_queryset(rows, f) ==
    {x \in rows : f.key = "none" \/ x[f.key] = f.value}

List(r, u, f) ==
    /\ Free(r)
    /\ Reply(r, Response("list", u, 0, "ok", filter_queryset(not_deleted(Rows), f)))
    /\ UNCHANGED <<tasks, queue, now, gone, nops, rem, dels>>

\* Mutation: the view does not pass the owner to serializer.save().
NewTask_mut(vd, u, t) ==
    [Merge(TaskDefaults, vd) EXCEPT
        !.id = Len(tasks) + 1, !.created_at = t, !.updated_at = t]

\* serializer.save(owner=user) of a create: a new row from the field
\* defaults, the validated fields and the owner passed by the view.
NewTask(vd, u, t) ==
    [Merge(TaskDefaults, vd) EXCEPT
        !.id = Len(tasks) + 1, !.owner = u, !.created_at = t, !.updated_at = t]

\* Mutation: the "assigned" job is enqueued without looking at the assignee.
CreateJobs_mut(task) == SetToBag({Job(task, "assigned", "create")})

\* The jobs perform_create enqueues after the save:
\* if task.assignee: delay(task.id, "assigned")
CreateJobs(task) ==
    IF task.assignee # None THEN SetToBag({Job(task, "assigned", "create")}) ELSE EmptyBag

\* POST /tasks/: CreateModelMixin.create validates the body, then
\* perform_create inserts the row with owner = request.user and enqueues.
\* The send to the broker reads and writes nothing of the table, so it
\* is taken in the step of the INSERT.
Create(r, u, body) ==
    /\ Free(r)
    /\ IF ~is_valid(body, FALSE)
       THEN /\ Reply(r, Response("create", u, 0, "invalid", {}))
            /\ UNCHANGED <<tasks, queue, now, gone, nops>>
       ELSE /\ Len(tasks) < MaxTasks
            /\ nops < MaxOps
            /\ nops' = nops + 1
            /\ \E t \in Clock :
               LET task == NewTask(validated_data(body), u, t)
               IN /\ now' = t
                  /\ tasks' = Append(tasks, task)
                  /\ queue' = queue (+) CreateJobs(task)
                  /\ Reply(r, Response("create", u, task.id, "created", {task}))
    /\ UNCHANGED <<gone, rem, dels>>

\* ------------------------------------------------------ TaskDetailView
\* GET /tasks/<id>/
Retrieve(r, u, id) ==
    /\ Free(r)
    /\ Reply(r, IF Found(id) = {} THEN Response("retrieve", u, id, "not_found", {})
                ELSE Response("retrieve", u, id, "ok", Found(id)))
    /\ UNCHANGED <<tasks, queue, now, gone, nops, rem, dels>>

\* PUT/PATCH /tasks/<id>/, UpdateModelMixin.update up to perform_update:
\* instance = get_object(); serializer.is_valid(raise_exception=True)
UpdateRead(r, u, id, body, partial) ==
    /\ Free(r)
    /\ IF Found(id) = {}
       THEN Reply(r, Response("update", u, id, "not_found", {})) /\ UNCHANGED nops
       ELSE IF ~is_valid(body, partial)
       THEN Reply(r, Response("update", u, id, "invalid", {})) /\ UNCHANGED nops
       ELSE /\ nops < MaxOps
            /\ nops' = nops + 1
            /\ req' = [req EXCEPT ![r] =
                         [NoReq EXCEPT !.pc = "u_check", !.op = "update",
                                       !.user = u, !.id = id,
                                       !.data = validated_data(body),
                                       !.instance = CHOOSE x \in Found(id) : TRUE]]
            /\ UNCHANGED out
    /\ UNCHANGED <<tasks, queue, now, gone, rem, dels>>

\* Mutation: the assignee may change the task as well.
Denied_mut(task, u) == task.owner # u /\ task.assignee # u /\ ~is_staff[u]

\* The check of perform_update and perform_destroy:
\* task.owner != user and not user.is_staff raises PermissionDenied.
Denied(task, u) == task.owner # u /\ ~is_staff[u]

\* perform_update, first half: task = self.get_object() reads the row a
\* second time, the owner/staff check, old_assignee = task.assignee.
UpdateCheck(r) ==
    /\ out = Quiet
    /\ req[r].pc = "u_check"
    /\ IF Found(req[r].id) = {}
       THEN Reply(r, Response("update", req[r].user, req[r].id, "not_found", {}))
       ELSE LET task == CHOOSE x \in Found(req[r].id) : TRUE IN
            IF Denied(task, req[r].user)
            THEN Reply(r, Response("update", req[r].user, req[r].id, "forbidden", {}))
            ELSE /\ req' = [req EXCEPT ![r].pc = "u_save",
                                       ![r].old_assignee = task.assignee]
                 /\ UNCHANGED out
    /\ UNCHANGED <<tasks, queue, now, gone, nops, rem, dels>>

\* The condition of line 442: task.assignee and
\* old_assignee.id != task.assignee.id.  With old_assignee None and a
\* truthy task.assignee the attribute access raises.
AssigneeCheck(task, old_assignee) ==
    IF task.assignee = None THEN "same"
    ELSE IF old_assignee = None THEN "raise"
    ELSE IF old_assignee # task.assignee THEN "changed"
    ELSE "same"

\* The jobs perform_update enqueues after the save: delay(..., "updated"),
\* then, when the condition holds, delay(..., "assigned").
UpdateJobs(task, old_assignee) ==
    SetToBag({Job(task, "updated", "update")}) (+)
    (IF AssigneeCheck(task, old_assignee) = "changed"
     THEN SetToBag({Job(task, "assigned", "update")}) ELSE EmptyBag)

\* Mutation: the jobs are enqueued for a change that is not stored yet.
UpdatedTask_mut(instance, vd, t) == SaveRow(instance, t)

\* The row serializer.save() writes: the validated fields are set on the
\* instance read by update() and the whole instance is written back.
UpdatedTask(instance, vd, t) == SaveRow(Merge(instance, vd), t)

\* perform_update, second half: task = serializer.save(), the "updated"
\* job, the assignee comparison and the "assigned" job.  The sends to the
\* broker read and write nothing of the table, so they are taken in the
\* step of the UPDATE.
UpdateSave(r) ==
    /\ out = Quiet
    /\ req[r].pc = "u_save"
    /\ \E t \in Clock :
       LET task == UpdatedTask(req[r].instance, req[r].data, t)
       IN /\ now' = t
          /\ tasks' = [tasks EXCEPT ![task.id] = task]
          /\ queue' = queue (+) UpdateJobs(task, req[r].old_assignee)
          /\ Reply(r, IF AssigneeCheck(task, req[r].old_assignee) = "raise"
                      THEN Response("update", req[r].user, task.id, "fault", {})
                      ELSE Response("update", req[r].user, task.id, "ok", {task}))
    /\ UNCHANGED <<gone, nops, rem, dels>>

\* DELETE /tasks/<id>/, DestroyModelMixin.destroy: instance = get_object(),
\* then the owner/staff check of perform_destroy.
DeleteRead(r, u, id) ==
    /\ Free(r)
    /\ IF Found(id) = {}
       THEN Reply(r, Response("delete", u, id, "not_found", {})) /\ UNCHANGED nops
       ELSE LET instance == CHOOSE x \in Found(id) : TRUE IN
            IF Denied(instance, u)
            THEN Reply(r, Response("delete", u, id, "forbidden", {})) /\ UNCHANGED nops
            ELSE /\ nops < MaxOps
                 /\ nops' = nops + 1
                 /\ req' = [req EXCEPT ![r] =
                              [NoReq EXCEPT !.pc = "d_save", !.op = "delete",
                                            !.user = u, !.id = id,
                                            !.instance = instance]]
                 /\ UNCHANGED out
    /\ UNCHANGED <<tasks, queue, now, gone, rem, dels>>

\* Mutation: the flag is flipped instead of set.
TaskDelete_mut(instance, t) ==
    SaveRow([instance EXCEPT !.is_deleted = ~instance.is_deleted,
                             !.deleted_at = t], t)

\* Task.delete: is_deleted = True, deleted_at = now(), self.save()
TaskDelete(instance, t) ==
    SaveRow([instance EXCEPT !.is_deleted = TRUE, !.deleted_at = t], t)

DeleteSave(r) ==
    /\ out = Quiet
    /\ req[r].pc = "d_save"
    /\ \E t \in Clock :
          /\ now' = t
          /\ tasks' = [tasks EXCEPT ![req[r].id] = TaskDelete(req[r].instance, t)]
    /\ Reply(r, Response("delete", req[r].user, req[r].id, "no_content", {}))
    /\ gone' = gone \cup {req[r].id}
    /\ UNCHANGED <<queue, nops, rem, dels>>

\* ------------------------------------------------------- notifications
\* send_task_notification(task_id, action), run by a celery worker:
\* Task.objects.get(id=task_id) is not filtered by is_deleted, and
\* task.assignee.email raises when the assignee is null.
\* Mutation: the recipient is the assignee the task had at the enqueue.
Mail_mut(job, task) ==
    [kind |-> "mail", job |-> job,
     to |-> IF job.enq_assignee \in Users THEN email[job.enq_assignee]
            ELSE email[task.assignee]]

Mail(job, task) ==
    [kind |-> "mail", job |-> job, to |-> email[task.assignee]]

\* Mutation: a job without a recipient falls back to the staff address.
JobFault_mut(job) == [kind |-> "mail", job |-> job, to |-> email["Adm"]]

\* The AttributeError of task.assignee.email: the job ends, nothing is sent.
JobFault(job) == [kind |-> "job_fault", job |-> job]

\* Mutation: the job looks the task up among the not-deleted rows and
\* ends with DoesNotExist when the task is deleted.
RunJob_mut(job) ==
    /\ out = Quiet
    /\ BagIn(job, queue)
    /\ LET task == tasks[job.task_id]
       IN out' = IF task.is_deleted \/ task.assignee = None THEN JobFault(job)
                 ELSE Mail(job, task)
    /\ queue' = queue (-) SetToBag({job})
    /\ UNCHANGED <<tasks, req, now, gone, nops, rem, dels>>

RunJob(job) ==
    /\ out = Quiet
    /\ BagIn(job, queue)
    /\ LET task == tasks[job.task_id]
       IN out' = IF task.assignee = None THEN JobFault(job)
                 ELSE Mail(job, task)
    /\ queue' = queue (-) SetToBag({job})
    /\ UNCHANGED <<tasks, req, now, gone, nops, rem, dels>>

Next ==
    \/ Flush
    \/ \E r \in Reqs, u \in Users, f \in Filters : List(r, u, f)
    \/ \E r \in Reqs, u \in Users, body \in Bodies : Create(r, u, body)
    \/ \E r \in Reqs, u \in Users, id \in Ids : Retrieve(r, u, id)
    \/ \E r \in Reqs, u \in Users, id \in Ids, body \in Bodies,
          partial \in BOOLEAN : UpdateRead(r, u, id, body, partial)
    \/ \E r \in Reqs : UpdateCheck(r)
    \/ \E r \in Reqs : UpdateSave(r)
    \/ \E r \in Reqs, u \in Users, id \in Ids : DeleteRead(r, u, id)
    \/ \E r \in Reqs : DeleteSave(r)
    \/ \E job \in BagToSet(queue) : RunJob(job)

Spec == Init /\ [][Next]_vars

\* ------------------------------------------ the store and the beat job
\* Task.delete and send_due_date_reminder, run against a table that the
\* requests above have filled: up to MaxScan rows of any status, with or
\* without assignee and due date, none of them deleted yet.
Day == 1            \* timezone.timedelta(days=1), in units of the clock

StoredRow(id, s, a, d, c) ==
    [TaskDefaults EXCEPT
        !.id = id, !.title = "t1", !.description = "d1", !.owner = "A",
        !.status = s, !.assignee = a, !.due_date = d,
        !.created_at = c, !.updated_at = c]

StoredRows(id, t) ==
    {StoredRow(id, s, a, d, c) :
        s \in STATUS_CHOICES, a \in {None, "B"},
        d \in {NullTime} \cup 0..MaxDue, c \in 0..t}

\* Tables of rows created up to time t: ids in insertion order, so
\* created_at does not decrease with the id.
Tables(t) ==
    UNION {{tb \in [1..n -> UNION {StoredRows(i, t) : i \in 1..n}] :
              /\ \A i \in 1..n : tb[i].id = i
              /\ \A i \in 1..n, j \in 1..n :
                    i < j => tb[i].created_at <= tb[j].created_at}
           : n \in 0..MaxScan}

InitStore ==
    /\ now \in 0..MaxTime
    /\ tasks \in Tables(now)
    /\ req = [r \in Reqs |-> NoReq]
    /\ out = Quiet
    /\ queue = EmptyBag
    /\ gone = {}
    /\ nops = 0
    /\ rem = NoRun
    /\ dels = [i \in 1..MaxScan |-> 0]

\* task.delete() on the row with this id, loaded just before the call.
StoreDelete(i) ==
    /\ i \in 1..Len(tasks)
    /\ dels[i] < MaxDeletes
    /\ \E t \in Clock :
          /\ now' = t
          /\ tasks' = [tasks EXCEPT ![i] = TaskDelete(tasks[i], t)]
    /\ dels' = [dels EXCEPT ![i] = dels[i] + 1]
    /\ UNCHANGED <<req, out, queue, gone, nops, rem>>

\* Task.objects.filter(due_date__lte=now + timedelta(days=1),
\* status="pending"): a null due_date never compares true.
ReminderQuery(rows, t) ==
    {x \in rows :
        x.due_date # NullTime /\ x.due_date <= t + Day /\ x.status = "pending"}

\* The orders in which the query may hand out these rows:
\* Meta.ordering = ["-created_at"], rows created at the same time in any
\* order.
Ordered(rows) ==
    {sq \in [1..Cardinality(rows) -> rows] :
        /\ \A i, j \in 1..Cardinality(rows) : i # j => sq[i] # sq[j]
        /\ \A i, j \in 1..Cardinality(rows) :
              i < j => sq[i].created_at >= sq[j].created_at}

\* send_due_date_reminder up to the loop: now = timezone.now() and the
\* query, which the for statement evaluates once.
ReminderScan ==
    /\ rem.pc = "idle"
    /\ \E t \in Clock : \E sq \in Ordered(ReminderQuery(Rows, t)) :
          /\ now' = t
          /\ rem' = [pc |-> IF sq = <<>> THEN "done" ELSE "send",
                     at |-> t, table |-> tasks, todo |-> sq, sent |-> <<>>]
    /\ UNCHANGED <<tasks, req, out, queue, gone, nops, dels>>

\* One turn of the loop: send_mail to task.assignee.email; with a null
\* assignee the attribute access raises and the job ends there.
ReminderSend ==
    /\ rem.pc = "send"
    /\ LET task == Head(rem.todo) IN
       IF task.assignee = None
       THEN rem' = [rem EXCEPT !.pc = "failed"]
       ELSE rem' = [rem EXCEPT
                       !.pc = IF Len(rem.todo) = 1 THEN "done" ELSE "send",
                       !.todo = Tail(rem.todo),
                       !.sent = Append(rem.sent,
                                       [task_id |-> task.id,
                                        to |-> email[task.assignee]])]
    /\ UNCHANGED <<tasks, req, out, queue, now, gone, nops, dels>>

NextStore ==
    \/ \E i \in 1..MaxScan : StoreDelete(i)
    \/ ReminderScan
    \/ ReminderSend

SpecStore == InitStore /\ [][NextStore]_vars

\* ================================================================ claims
\* Steps, as seen in a pair of states.
UpdateSaved(r) == req[r].pc = "u_save" /\ req'[r].pc = "idle"
DeleteSaved(r) == req[r].pc = "d_save" /\ req'[r].pc = "idle"
Created        == Len(tasks') = Len(tasks) + 1
Answered       == out = Quiet /\ out'.kind = "response"
Live(id)       == id \in 1..Len(tasks) /\ ~tasks[id].is_deleted

RECURSIVE SumCopies(_, _)
SumCopies(S, B) ==
    IF S = {} THEN 0
    ELSE LET e == CHOOSE x \in S : TRUE
         IN CopiesIn(e, B) + SumCopies(S \ {e}, B)

\* Number of queued jobs for task id with this action.
NumJobs(q, id, action) ==
    SumCopies({j \in BagToSet(q) : j.task_id = id /\ j.action = action}, q)

\* C1: once a task's is_deleted flag is true it is true in every later
\* state, whatever requests are issued and however they interleave.
C1_DeletionMonotonic ==
    [][\A i \in 1..Len(tasks) : tasks[i].is_deleted => tasks'[i].is_deleted]_vars

\* The pair invariant of C2 alone: is_deleted is true exactly when
\* deleted_at is set.
DeletedPairInv ==
    \A i \in 1..Len(tasks) :
        tasks[i].is_deleted <=> tasks[i].deleted_at # NullTime

\* C2: is_deleted <=> deleted_at non-null in every state; Create stores
\* (false, null), Delete stores (true, timestamp), and Update changes
\* neither field.
C2_DeletedPair ==
    [][/\ \A i \in 1..Len(tasks') :
             tasks'[i].is_deleted <=> tasks'[i].deleted_at # NullTime
       /\ Created =>
             /\ ~tasks'[Len(tasks')].is_deleted
             /\ tasks'[Len(tasks')].deleted_at = NullTime
       /\ \A r \in Reqs : DeleteSaved(r) =>
             /\ tasks'[req[r].id].is_deleted
             /\ tasks'[req[r].id].deleted_at # NullTime
       /\ \A r \in Reqs : UpdateSaved(r) =>
             /\ tasks'[req[r].id].is_deleted = tasks[req[r].id].is_deleted
             /\ tasks'[req[r].id].deleted_at = tasks[req[r].id].deleted_at
      ]_vars

\* The authorization rule as the specification states it.
MayMutate(u, task) == u = task.owner \/ is_staff[u]

\* C3: an Update of an existing task by a caller who is neither its owner
\* nor staff is answered Forbidden whatever the body, and the step that
\* answers it changes no row and enqueues nothing.
C3_NonOwnerForbidden ==
    [][(/\ Answered
        /\ out'.op = "update"
        /\ Live(out'.id)
        /\ ~MayMutate(out'.user, tasks[out'.id]))
       => /\ out'.result = "forbidden"
          /\ tasks' = tasks
          /\ queue' = queue]_vars

\* C4: an Update that changes the stored assignee from null to a user U
\* is answered with the updated task and enqueues exactly one "updated"
\* and exactly one "assigned" job for the task.
C4_AssignFromNull ==
    [][\A r \in Reqs :
          (/\ UpdateSaved(r)
           /\ tasks[req[r].id].assignee = None
           /\ tasks'[req[r].id].assignee \in Users)
          => /\ out'.result = "ok"
             /\ out'.ret = {req[r].id}
             /\ NumJobs(queue', req[r].id, "updated")
                  = NumJobs(queue, req[r].id, "updated") + 1
             /\ NumJobs(queue', req[r].id, "assigned")
                  = NumJobs(queue, req[r].id, "assigned") + 1]_vars

\* What a Create adds to the queue: one "assigned" job when the new task
\* has an assignee, nothing otherwise.
CreateEnqueuesOne ==
    Created =>
        LET task == tasks'[Len(tasks')] IN
        /\ BagCardinality(queue') = BagCardinality(queue)
              + (IF task.assignee # None THEN 1 ELSE 0)
        /\ NumJobs(queue', task.id, "assigned")
              = IF task.assignee # None THEN 1 ELSE 0

\* The step runs a job that a Create enqueued.
RanCreateJob == out = Quiet /\ out'.kind \in {"mail", "job_fault"} /\ out'.job.by = "create"

\* C5 as stated: a Create with assignee U enqueues exactly one job,
\* "assigned", and the email sent for it goes to U, whatever Updates ran
\* before the job; a Create without assignee enqueues nothing.
C5_CreateMailToU ==
    [][/\ CreateEnqueuesOne
       /\ (RanCreateJob /\ out'.kind = "mail")
             => out'.to = email[out'.job.enq_assignee]]_vars

\* C5 amended: a Create with assignee U enqueues exactly one job,
\* "assigned", and a Create without assignee none; the email sent for the
\* job goes to the assignee the task has when the job runs, and the job
\* fails without an email exactly when that assignee is null.
C5_CreateMailToCurrent ==
    [][/\ CreateEnqueuesOne
       /\ RanCreateJob =>
             LET cur == tasks[out'.job.task_id].assignee IN
             IF cur = None THEN out'.kind = "job_fault"
             ELSE out'.kind = "mail" /\ out'.to = email[cur]]_vars

\* The job of a Create has run after an Update changed the assignee.
C5_Witness ==
    /\ out.kind = "mail"
    /\ out.job.by = "create"
    /\ out.job.action = "assigned"
    /\ out.to # email[out.job.enq_assignee]

\* C6: a row is changed or soft-deleted only by a request of its owner or
\* of a staff user, and only a caller who is neither is answered Forbidden.
C6_OwnerOrAdmin ==
    [][/\ \A i \in 1..Len(tasks) :
             tasks'[i] # tasks[i] =>
                \E r \in Reqs :
                   /\ UpdateSaved(r) \/ DeleteSaved(r)
                   /\ req[r].id = i
                   /\ MayMutate(req[r].user, tasks[i])
       /\ (/\ Answered
           /\ out'.op \in {"update", "delete"}
           /\ out'.result = "forbidden")
          => /\ Live(out'.id)
             /\ ~MayMutate(out'.user, tasks[out'.id])
             /\ tasks' = tasks]_vars

\* The assignee of a task, who does not own it, was refused.
C6_Witness ==
    /\ out.kind = "response"
    /\ out.op \in {"update", "delete"}
    /\ out.result = "forbidden"
    /\ tasks[out.id].assignee = out.user

\* C7: once DELETE of an id was answered 204, every later Retrieve,
\* Update and Delete of that id is answered NotFound at once, changes no
\* row and enqueues nothing.
C7_GoneStaysGone ==
    [][/\ \A r \in Reqs :
             (req[r].pc = "idle" /\ req'[r].pc # "idle") => req'[r].id \notin gone
       /\ (/\ Answered
           /\ req' = req
           /\ out'.op \in {"retrieve", "update", "delete"}
           /\ out'.id \in gone)
          => /\ out'.result = "not_found"
             /\ tasks' = tasks
             /\ queue' = queue]_vars

\* C8: a List or Retrieve response names no task that is soft-deleted in
\* the state the request read.
C8_NoDeletedReturned ==
    (out.kind = "response" /\ out.op \in {"list", "retrieve"})
    => \A id \in out.ret : id \in 1..Len(tasks) /\ ~tasks[id].is_deleted

\* A List was answered while the table held a soft-deleted row.
C8_Witness ==
    /\ out.kind = "response"
    /\ out.op = "list"
    /\ \E i \in 1..Len(tasks) : tasks[i].is_deleted

\* C9: the owner of a new row is the caller of the Create, and no step
\* changes the owner of a row.
C9_OwnerFixed ==
    [][/\ Created => tasks'[Len(tasks')].owner = out'.user
       /\ \A i \in 1..Len(tasks) : tasks'[i].owner = tasks[i].owner]_vars

\* A staff user who is not the owner has updated the task.
C9_Witness ==
    /\ out.kind = "response"
    /\ out.op = "update"
    /\ out.result = "ok"
    /\ out.user # tasks[out.id].owner

\* C10: every Update that is stored enqueues exactly one "updated" job,
\* and one "assigned" job more exactly when the stored assignee after the
\* write is non-null and differs from the stored assignee before it.
C10_UpdateNotifications ==
    [][\A r \in Reqs :
          UpdateSaved(r) =>
             LET id == req[r].id
                 before == tasks[id].assignee
                 after == tasks'[id].assignee
             IN /\ NumJobs(queue', id, "updated")
                     = NumJobs(queue, id, "updated") + 1
                /\ NumJobs(queue', id, "assigned")
                     = NumJobs(queue, id, "assigned")
                       + (IF after # None /\ after # before THEN 1 ELSE 0)]_vars

\* The step runs a queued job.
RanJob == out = Quiet /\ out'.kind \in {"mail", "job_fault"}

\* C11: the job takes its recipient from the task as stored when it runs:
\* when the assignee was U at the enqueue and is another user V at the
\* run, the one email of the job goes to V and none goes to U.
C11_ResolveAtExecution ==
    [][(/\ RanJob
        /\ out'.job.enq_assignee \in Users
        /\ tasks[out'.job.task_id].assignee \in Users
        /\ tasks[out'.job.task_id].assignee # out'.job.enq_assignee)
       => /\ out'.kind = "mail"
          /\ out'.to = email[tasks[out'.job.task_id].assignee]
          /\ out'.to # email[out'.job.enq_assignee]]_vars

\* A job enqueued by an Update for assignee U has sent its email to the
\* user the task was reassigned to afterwards.
C11_Witness ==
    /\ out.kind = "mail"
    /\ out.job.by = "update"
    /\ out.job.enq_assignee \in Users
    /\ tasks[out.job.task_id].assignee \in Users \ {out.job.enq_assignee}
    /\ out.to = email[tasks[out.job.task_id].assignee]

\* C12: a job that finds the assignee null ends in a fault and sends no
\* email; the step changes no row and no request, so the write of the
\* Create or Update that enqueued the job stays stored and answered.
C12_NullAssigneeFault ==
    [][(RanJob /\ tasks[out'.job.task_id].assignee = None)
       => /\ out'.kind = "job_fault"
          /\ tasks' = tasks
          /\ req' = req
          /\ BagCardinality(queue') = BagCardinality(queue) - 1]_vars

\* The "updated" job of an Update that left the task unassigned has
\* faulted, and the task is stored as that Update wrote it.
C12_Witness ==
    /\ out.kind = "job_fault"
    /\ out.job.by = "update"
    /\ out.job.enq_assignee = None
    /\ tasks[out.job.task_id].assignee = None
    /\ tasks[out.job.task_id].status = "completed"

\* The fields a request body may set, and the fields no Update may change.
InputFields == {"title", "description", "status", "assignee", "due_date"}
FixedFields == {"id", "owner", "created_at", "is_deleted", "deleted_at"}

\* C15: an Update answered 200 changes, in the stored row, only fields
\* its body supplies and updated_at: an input field that is absent keeps
\* its stored value, id, owner, created_at, is_deleted and deleted_at keep
\* theirs, and no other row changes.
C15_UpdateFrame ==
    [][\A r \in Reqs :
          (UpdateSaved(r) /\ out'.result = "ok") =>
             LET id == req[r].id IN
             /\ \A f \in InputFields \ req[r].data.given :
                   tasks'[id][f] = tasks[id][f]
             /\ \A f \in FixedFields : tasks'[id][f] = tasks[id][f]
             /\ \A i \in 1..Len(tasks) : i # id => tasks'[i] = tasks[i]]_vars

\* C16: no step of a Delete, answered 204, NotFound or Forbidden, changes
\* the queue, and the write of a Delete changes no field of the stored
\* row other than is_deleted, deleted_at and updated_at.
C16_DeleteFrame ==
    [][/\ (Answered /\ out'.op = "delete") => queue' = queue
       /\ \A r \in Reqs :
             (/\ req'[r] # req[r]
              /\ req[r].op = "delete" \/ req'[r].op = "delete") => queue' = queue
       /\ \A r \in Reqs :
             DeleteSaved(r) =>
                /\ \A f \in DOMAIN TaskDefaults \
                              {"is_deleted", "deleted_at", "updated_at"} :
                      tasks'[req[r].id][f] = tasks[req[r].id][f]
                /\ \A i \in 1..Len(tasks) :
                      i # req[r].id => tasks'[i] = tasks[i]]_vars

C18_LastWriteWinsPerField ==
    [][\A r \in Reqs :
          (UpdateSaved(r) /\ ~tasks[req[r].id].is_deleted) =>
             \A f \in InputFields \ req[r].data.given :
                tasks[req[r].id][f] # req[r].instance[f]
                   => tasks'[req[r].id][f] = tasks[req[r].id][f]]_vars

\* The row of a reminder that was sent, as the query of the run saw it.
Reminded(k) == rem.table[rem.sent[k].task_id]

\* C13: every task for which the reminder job sends a reminder had
\* is_deleted = false when the job scanned the table.
C13_NoReminderForDeleted ==
    \A k \in 1..Len(rem.sent) : ~Reminded(k).is_deleted

\* C14: every task for which the reminder job sends a reminder was
\* pending and had a due date from the time the job read to one day
\* later; a due date in the past, no due date, or another status gets no
\* reminder.
C14_ReminderWindow ==
    \A k \in 1..Len(rem.sent) :
        /\ Reminded(k).status = "pending"
        /\ Reminded(k).due_date # NullTime
        /\ rem.at <= Reminded(k).due_date
        /\ Reminded(k).due_date <= rem.at + Day

\* The tasks the reminder job is to remind, by the rule of the
\* specification: not deleted, pending, due within the next day.
Matching(x, t) ==
    /\ ~x.is_deleted
    /\ x.status = "pending"
    /\ x.due_date # NullTime
    /\ t <= x.due_date
    /\ x.due_date <= t + Day

\* C19: when a run of the reminder job has ended, every task that matched
\* at the scan and has an assignee got exactly one reminder, also when
\* another matching task of the scan has no assignee.
C19_EveryMatchReminded ==
    rem.pc \in {"done", "failed"} =>
        \A i \in 1..Len(rem.table) :
            (Matching(rem.table[i], rem.at) /\ rem.table[i].assignee # None)
               => Cardinality({k \in 1..Len(rem.sent) :
                                 rem.sent[k].task_id = i}) = 1

\* C20 as stated: Task.delete applied to a record that is already
\* deleted leaves it as the first call left it, deleted_at included.
C20_DeleteTwiceSame ==
    [][\A i \in 1..Len(tasks) :
          (StoreDelete(i) /\ tasks[i].is_deleted) => tasks'[i] = tasks[i]]_vars

\* C20 amended: Task.delete applied to a record that is already deleted
\* leaves is_deleted true and every other field as it was, except
\* deleted_at and updated_at, which take the time of this call.
C20_DeleteTwiceRestamps ==
    [][\A i \in 1..Len(tasks) :
          (StoreDelete(i) /\ tasks[i].is_deleted) =>
             /\ tasks'[i].is_deleted
             /\ tasks'[i] = [tasks[i] EXCEPT !.deleted_at = now',
                                             !.updated_at = now']
             /\ tasks'[i].deleted_at >= tasks[i].deleted_at]_vars

\* Task.delete was called twice on a row, the second time later.
C20_Witness ==
    \E i \in 1..Len(tasks) :
        /\ dels[i] = 2
        /\ tasks[i].is_deleted
        /\ tasks[i].deleted_at > tasks[i].created_at

\* The jobs a step puts on the queue.
Enqueued == {job \in BagToSet(queue') : CopiesIn(job, queue') > CopiesIn(job, queue)}

\* C21: a job is enqueued only in the step that stores the change it
\* reports: the new row of a Create, or the row of an Update holding the
\* fields its body supplied; rows are never removed, so the row a job
\* names exists when the job runs and holds that write or a later one.
C21_SavedBeforeEnqueued ==
    [][/\ \A job \in Enqueued :
             /\ job.task_id \in 1..Len(tasks')
             /\ tasks'[job.task_id].assignee = job.enq_assignee
             /\ tasks'[job.task_id].updated_at = now'
             /\ job.by = "create" =>
                   Created /\ job.task_id = Len(tasks')
             /\ job.by = "update" =>
                   \E r \in Reqs :
                      /\ UpdateSaved(r)
                      /\ req[r].id = job.task_id
                      /\ \A f \in req[r].data.given :
                            tasks'[job.task_id][f] = req[r].data.val[f]
       /\ Len(tasks') >= Len(tasks)
       /\ \A i \in 1..Len(tasks) : tasks'[i].updated_at >= tasks[i].updated_at
       /\ RanJob => out'.job.task_id \in 1..Len(tasks)]_vars

\* The "updated" job of an Update that set the status has run and sent
\* its email, with the status stored.
C21_Witness ==
    /\ out.kind = "mail"
    /\ out.job.by = "update"
    /\ out.job.action = "updated"
    /\ tasks[out.job.task_id].status = "completed"
    /\ ~tasks[out.job.task_id].is_deleted

\* C22: an Update or Delete that is answered with anything but success
\* (NotFound, Forbidden, a validation failure or a fault of the handler)
\* has changed no row and enqueued nothing: no step of a request changes
\* a row or the queue except the step that answers it with success.
C22_FailureChangesNothing ==
    [][/\ (/\ Answered
           /\ out'.op \in {"update", "delete"}
           /\ out'.result \notin {"ok", "no_content"})
          => tasks' = tasks /\ queue' = queue
       /\ \A r \in Reqs :
             (req'[r] # req[r] /\ req'[r].pc # "idle")
                => tasks' = tasks /\ queue' = queue]_vars

\* C23 as stated: a job that runs while its task is soft-deleted sends
\* no email.
C23_NoMailForDeleted ==
    [][(RanJob /\ tasks[out'.job.task_id].is_deleted)
       => out'.kind # "mail"]_vars

\* C23 amended: a queued job is not cancelled by a Delete; run while its
\* task is soft-deleted it still finds the task and sends its email to
\* the stored assignee, and it faults, sending nothing, exactly when that
\* assignee is null.
C23_DeletedStillNotified ==
    [][(RanJob /\ tasks[out'.job.task_id].is_deleted)
       => /\ out'.kind = "mail" <=> tasks[out'.job.task_id].assignee \in Users
          /\ out'.kind = "mail" =>
                out'.to = email[tasks[out'.job.task_id].assignee]
          /\ tasks' = tasks]_vars

\* A job enqueued before the Delete of its task has sent its email after
\* the Delete was answered.
C23_Witness ==
    /\ out.kind = "mail"
    /\ tasks[out.job.task_id].is_deleted
    /\ out.job.task_id \in gone

====
